---- MODULE Spec2Model ----
(***************************************************************************)
(* Task Manager backend: the Express routes of routes/auth.js and          *)
(* routes/tasks.js, the protect middleware, and the two Mongoose           *)
(* collections (User, Task) they read and write.                           *)
(*                                                                         *)
(* Every request is an async handler; the points where it awaits the       *)
(* database are the points where other requests interleave.  One action    *)
(* of the model is the code of a handler from one database call to the     *)
(* next.  A request that is answered leaves its slot; resp is the answer   *)
(* the last step sent, with the request it answers.                        *)
(*                                                                         *)
(* Strings are sequences of one-character strings.  Time is counted in     *)
(* days.  updatedAt and __v are not modelled (no route reads them).        *)
(***************************************************************************)
EXTENDS Integers, Sequences, FiniteSets, TLC

VARIABLES
    users,       \* the users collection: _id -> document
    tasks,       \* the tasks collection: _id -> document
    nextUserId,  \* the next fresh ObjectId of a user
    nextTaskId,  \* the next fresh ObjectId of a task
    now,         \* the server clock (days)
    ticks,       \* how many times the clock has advanced
    issued,      \* the tokens jwt.sign has returned so far (held by clients)
    reqs,        \* the requests in flight: slot -> request
    resp,        \* the response the last step sent (NoResp if it sent none)
    client       \* the browser: localStorage and the state of the React components

vars == <<users, tasks, nextUserId, nextTaskId, now, ticks, issued, reqs, resp, client>>

-----------------------------------------------------------------------------
(* Bounds *)

MaxReq == 2        \* requests in flight at once
MaxUsers == 2      \* users ever created
MaxTasks == 2      \* tasks ever created
MaxTicks == 2      \* clock advances
MaxTokens == 2     \* distinct tokens issued

(* Program constants *)

TokenTTL == 30         \* expiresIn: '30d'
MaxTitleLen == 200     \* isLength({ max: 200 })
MaxDescLen == 1000     \* isLength({ max: 1000 })
MinUsernameLen == 3    \* isLength({ min: 3 })
MinPasswordLen == 6    \* isLength({ min: 6 })

Slots == 1..MaxReq

-----------------------------------------------------------------------------
(* Strings *)

SP == " "

Rep(c, n) == [i \in 1..n |-> c]

RECURSIVE TrimLeft(_)
TrimLeft(s) ==
    IF s # <<>> /\ Head(s) = SP THEN TrimLeft(Tail(s)) ELSE s

RECURSIVE TrimRight(_)
TrimRight(s) ==
    IF s # <<>> /\ s[Len(s)] = SP THEN TrimRight(SubSeq(s, 1, Len(s) - 1)) ELSE s

\* String.prototype.trim, as the .trim() sanitizer of express-validator applies it
Trim(s) == TrimRight(TrimLeft(s))

\* the empty request body, and the empty in-memory document
EmptyBody == [k \in {} |-> TRUE]

Has(b, k) == k \in DOMAIN b

-----------------------------------------------------------------------------
(* Tokens and headers *)

NoToken == [id |-> 0, iat |-> 0, exp |-> 0, sig |-> "none"]

\* jwt.sign({ id: user._id }, process.env.JWT_SECRET, { expiresIn: '30d' })
JwtSign(uid, t) == [id |-> uid, iat |-> t, exp |-> t + TokenTTL, sig |-> "ok"]

\* jwt.decode(token): the payload is read and the signature is not checked
JwtDecodeOnly(tok, t) == t < tok.exp

\* jwt.verify(token, secret, { ignoreExpiration: true })
JwtVerifyIgnoreExpiration(tok, t) == tok.sig = "ok"

\* jwt.verify(token, process.env.JWT_SECRET): the signature is the server's and
\* the clock has not reached exp
JwtVerify(tok, t) == tok.sig = "ok" /\ t < tok.exp

\* s.startsWith(p)
StartsWith(s, p) == Len(s) >= Len(p) /\ SubSeq(s, 1, Len(p)) = p

BearerWord == <<"B", "e", "a", "r", "e", "r">>

\* An Authorization header: the text before the first space, and the token
\* that split(' ')[1] yields.  No header is the empty text.
NoHeader == [scheme |-> <<>>, tok |-> NoToken]

Basic == [scheme |-> <<"B", "a", "s", "i", "c">>, tok |-> NoToken]

Bearer(tok) == [scheme |-> BearerWord, tok |-> tok]

\* a scheme that only starts with 'Bearer'
BearerX(tok) == [scheme |-> BearerWord \o <<"X">>, tok |-> tok]

\* a token signed with another key, for any user id and any expiry
Forged(uids, t) == {[id |-> u, iat |-> t, exp |-> t + TokenTTL, sig |-> "bad"] : u \in uids}

\* the Authorization headers a client can send
Headers ==
    {NoHeader, Basic, Bearer(NoToken)}
        \cup {Bearer(tok) : tok \in issued \cup Forged(DOMAIN users, now)}

-----------------------------------------------------------------------------
(* Requests and responses *)

\* ident is req.user, the document protect attaches; user is its _id; sent is
\* the body of a register as the client sent it, before the sanitizers
Idle ==
    [kind |-> "idle", pc |-> "idle", hdr |-> NoHeader, user |-> 0, id |-> 0,
     body |-> EmptyBody, doc |-> EmptyBody, mod |-> {}, log |-> {}, seen |-> "none",
     ident |-> EmptyBody, sent |-> EmptyBody]

NoResp ==
    [kind |-> "none", hdr |-> NoHeader, user |-> 0, id |-> 0, body |-> EmptyBody,
     status |-> 0, msg |-> "", out |-> <<>>, log |-> {}, seen |-> "none", mod |-> {},
     sent |-> EmptyBody]

\* res.status(status).json(...) for request q
Reply(q, status, msg, out) ==
    [kind |-> q.kind, hdr |-> q.hdr, user |-> q.user, id |-> q.id, body |-> q.body,
     status |-> status, msg |-> msg, out |-> out, log |-> q.log, seen |-> q.seen,
     mod |-> q.mod, sent |-> q.sent]

\* a browser that holds no session.  token and stored are the items 'token'
\* and 'user' of localStorage, user is the state of AuthProvider, tasks the
\* state of Dashboard; fetched tells that a fetchTasks of the mounted
\* Dashboard has succeeded.
NoClient ==
    [token |-> NoToken, stored |-> EmptyBody, user |-> EmptyBody, tasks |-> <<>>,
     fetched |-> FALSE]

\* an arriving request takes the first free slot
FreeSlot(r) == reqs[r] = Idle /\ \A s \in 1..(r - 1) : reqs[s] # Idle

Init ==
    /\ users = EmptyBody
    /\ tasks = EmptyBody
    /\ nextUserId = 1
    /\ nextTaskId = 1
    /\ now = 0
    /\ ticks = 0
    /\ issued = {}
    /\ reqs = [r \in Slots |-> Idle]
    /\ resp = NoResp
    /\ client = NoClient

-----------------------------------------------------------------------------
(* The protect middleware *)

\* protect without the jwt.verify call: any Bearer token naming a stored user
\* passes
AuthenticateNoVerify(hdr) ==
    IF ~StartsWith(hdr.scheme, BearerWord)
    THEN [next |-> FALSE, status |-> 401, msg |-> "Not authorized, no token",
          user |-> 0, findUser |-> FALSE]
    ELSE IF hdr.tok.id \notin DOMAIN users
    THEN [next |-> FALSE, status |-> 401, msg |-> "User not found",
          user |-> 0, findUser |-> TRUE]
    ELSE [next |-> TRUE, status |-> 0, msg |-> "",
          user |-> hdr.tok.id, findUser |-> TRUE]

\* protect without the if (!req.user) check: next() runs for a user that is gone
AuthenticateNoUserCheck(hdr) ==
    IF ~StartsWith(hdr.scheme, BearerWord)
    THEN [next |-> FALSE, status |-> 401, msg |-> "Not authorized, no token",
          user |-> 0, findUser |-> FALSE]
    ELSE IF ~JwtVerify(hdr.tok, now)
    THEN [next |-> FALSE, status |-> 401, msg |-> "Not authorized, token failed",
          user |-> 0, findUser |-> FALSE]
    ELSE [next |-> TRUE, status |-> 0, msg |-> "",
          user |-> hdr.tok.id, findUser |-> TRUE]

\* protect with a revocation rule: a token is refused once a later one has
\* been issued to the same user
AuthenticateLatestOnly(hdr) ==
    IF ~StartsWith(hdr.scheme, BearerWord)
    THEN [next |-> FALSE, status |-> 401, msg |-> "Not authorized, no token",
          user |-> 0, findUser |-> FALSE]
    ELSE IF ~JwtVerify(hdr.tok, now)
            \/ \E t \in issued : t.id = hdr.tok.id /\ t.iat > hdr.tok.iat
    THEN [next |-> FALSE, status |-> 401, msg |-> "Not authorized, token failed",
          user |-> 0, findUser |-> FALSE]
    ELSE IF hdr.tok.id \notin DOMAIN users
    THEN [next |-> FALSE, status |-> 401, msg |-> "User not found",
          user |-> 0, findUser |-> TRUE]
    ELSE [next |-> TRUE, status |-> 0, msg |-> "",
          user |-> hdr.tok.id, findUser |-> TRUE]

\* What protect decides for an Authorization header: next() with req.user set,
\* or a 401.  findUser tells whether User.findById was reached.
Authenticate(hdr) ==
    IF ~StartsWith(hdr.scheme, BearerWord)
    THEN [next |-> FALSE, status |-> 401, msg |-> "Not authorized, no token",
          user |-> 0, findUser |-> FALSE]
    ELSE IF ~JwtVerify(hdr.tok, now)
    THEN [next |-> FALSE, status |-> 401, msg |-> "Not authorized, token failed",
          user |-> 0, findUser |-> FALSE]
    ELSE IF hdr.tok.id \notin DOMAIN users
    THEN [next |-> FALSE, status |-> 401, msg |-> "User not found",
          user |-> 0, findUser |-> TRUE]
    ELSE [next |-> TRUE, status |-> 0, msg |-> "",
          user |-> hdr.tok.id, findUser |-> TRUE]

\* .select('-password')
SelectWithoutPassword(u) == [k \in DOMAIN u \ {"password"} |-> u[k]]

\* A request of kind `kind` arrives with header hdr and runs through protect.
Protect(r, kind, hdr) ==
    /\ FreeSlot(r)
    /\ LET a == Authenticate(hdr)
           q == [Idle EXCEPT !.kind = kind, !.hdr = hdr, !.user = a.user,
                             !.log = IF a.findUser THEN {"User.findById"} ELSE {}]
       IN  IF a.next
           THEN /\ reqs' = [reqs EXCEPT ![r] =
                               [q EXCEPT !.pc = "handler",
                                         !.ident = IF a.user \in DOMAIN users
                                                   THEN SelectWithoutPassword(users[a.user])
                                                   ELSE EmptyBody]]
                /\ resp' = NoResp
           ELSE /\ resp' = Reply(q, a.status, a.msg, <<>>)
                /\ UNCHANGED reqs
    /\ UNCHANGED <<users, tasks, nextUserId, nextTaskId, now, ticks, issued, client>>

-----------------------------------------------------------------------------
(* The Task model *)

\* A well-formed ObjectId string.  0 stands for a string Mongoose cannot cast
\* to an ObjectId (findOne then throws a CastError).
ValidId(id) == id >= 1

\* Task.find({}): the query without the owner in the filter
TaskFindAll(uid) == {tasks[t] : t \in DOMAIN tasks}

\* Task.find({ user: uid })
TaskFind(uid) == {tasks[t] : t \in {x \in DOMAIN tasks : tasks[x].user = uid}}

\* Task.findOne({ _id: id }): the lookup without the owner in the filter
TaskFindOneAnyOwner(id, uid) == {tasks[t] : t \in {x \in DOMAIN tasks : x = id}}

\* Task.findOne({ _id: id, user: uid }): the matching documents (none or one)
TaskFindOne(id, uid) ==
    {tasks[t] : t \in {x \in DOMAIN tasks : x = id /\ tasks[x].user = uid}}

\* all the orders of the set S
Orderings(S) ==
    {f \in [1..Cardinality(S) -> S] : \A i, j \in 1..Cardinality(S) : i # j => f[i] # f[j]}

\* .sort({ createdAt: 1 }): oldest first
SortByCreatedAtAsc(S) ==
    {f \in Orderings(S) :
        \A i, j \in 1..Cardinality(S) : i < j => f[i].createdAt <= f[j].createdAt}

\* .sort({ createdAt: -1 }): the orders the query may return (the order of
\* documents with equal createdAt is not specified)
SortByCreatedAtDesc(S) ==
    {f \in Orderings(S) :
        \A i, j \in 1..Cardinality(S) : i < j => f[i].createdAt >= f[j].createdAt}

\* validator isBoolean on the string form of the value
IsBoolean(v) == v \in {"true", "false", "1", "0"}

\* Mongoose's cast of an accepted value to Boolean
CastBoolean(v) == v \in {"true", "1"}

\* a save that writes the whole document in memory over the stored one
SavedWhole(stored, doc, mod) == doc

\* task.save(): the update sets the modified paths of doc in the stored document
SavedTask(stored, doc, mod) ==
    [k \in DOMAIN stored |-> IF k \in mod THEN doc[k] ELSE stored[k]]

-----------------------------------------------------------------------------
(* GET /api/tasks *)

List(r) ==
    /\ reqs[r].pc = "handler" /\ reqs[r].kind = "list"
    /\ LET q == [reqs[r] EXCEPT !.log = @ \cup {"Task.find"}] IN
       \E out \in SortByCreatedAtDesc(TaskFind(q.user)) :
           resp' = Reply(q, 200, "", out)
    /\ reqs' = [reqs EXCEPT ![r] = Idle]
    /\ UNCHANGED <<users, tasks, nextUserId, nextTaskId, now, ticks, issued, client>>

-----------------------------------------------------------------------------
(* POST /api/tasks *)

\* the chain of POST / without .trim(): the title is tested as it was sent
CreateErrorsNoTrim(b) ==
    LET title == IF Has(b, "title") THEN b.title ELSE <<>> IN
    (IF title = <<>> THEN <<"Task title is required">> ELSE <<>>)
    \o (IF Len(title) > MaxTitleLen THEN <<"Title cannot exceed 200 characters">> ELSE <<>>)
    \o (IF Has(b, "description") /\ Len(b.description) > MaxDescLen
        THEN <<"Description cannot exceed 1000 characters">> ELSE <<>>)

\* the messages of the validation chain of POST /, in the order of the chain
CreateErrors(b) ==
    LET title == IF Has(b, "title") THEN Trim(b.title) ELSE <<>> IN
    (IF title = <<>> THEN <<"Task title is required">> ELSE <<>>)
    \o (IF Len(title) > MaxTitleLen THEN <<"Title cannot exceed 200 characters">> ELSE <<>>)
    \o (IF Has(b, "description") /\ Len(Trim(b.description)) > MaxDescLen
        THEN <<"Description cannot exceed 1000 characters">> ELSE <<>>)

\* Task.create({ ...req.body, user: req.body.user || req.user._id }): the body
\* decides the owner and the completion flag
NewTaskFromBody(uid, b, id, t) ==
    [_id |-> id,
     user |-> IF Has(b, "user") THEN b.user ELSE uid,
     title |-> Trim(b.title),
     description |-> IF Has(b, "description") THEN Trim(b.description) ELSE <<>>,
     completed |-> IF Has(b, "completed") THEN CastBoolean(b.completed) ELSE FALSE,
     createdAt |-> t]

\* the document Task.create stores for body b sent by user uid
NewTask(uid, b, id, t) ==
    [_id |-> id,
     user |-> uid,
     title |-> Trim(b.title),
     description |-> IF Has(b, "description") THEN Trim(b.description) ELSE <<>>,
     completed |-> FALSE,
     createdAt |-> t]

Create(r, b) ==
    /\ reqs[r].pc = "handler" /\ reqs[r].kind = "create"
    /\ LET q == [reqs[r] EXCEPT !.body = b, !.log = @ \cup {"validate"}]
           errs == CreateErrors(b)
       IN  IF errs # <<>>
           THEN /\ resp' = Reply(q, 400, errs[1], <<>>)
                /\ UNCHANGED <<tasks, nextTaskId>>
           ELSE /\ nextTaskId <= MaxTasks
                /\ LET task == NewTask(q.user, b, nextTaskId, now) IN
                   /\ tasks' = [t \in DOMAIN tasks \cup {nextTaskId} |->
                                   IF t = nextTaskId THEN task ELSE tasks[t]]
                   /\ resp' = Reply([q EXCEPT !.id = nextTaskId,
                                              !.log = @ \cup {"Task.create"}],
                                    201, "", <<task>>)
                /\ nextTaskId' = nextTaskId + 1
    /\ reqs' = [reqs EXCEPT ![r] = Idle]
    /\ UNCHANGED <<users, nextUserId, now, ticks, issued, client>>

-----------------------------------------------------------------------------
(* PUT /api/tasks/:id *)

\* the messages of the validation chain of PUT /:id, in the order of the chain
UpdateErrors(b) ==
    (IF Has(b, "title") /\ Trim(b.title) = <<>>
        THEN <<"Title cannot be empty">> ELSE <<>>)
    \o (IF Has(b, "title") /\ Len(Trim(b.title)) > MaxTitleLen
        THEN <<"Title cannot exceed 200 characters">> ELSE <<>>)
    \o (IF Has(b, "description") /\ Len(Trim(b.description)) > MaxDescLen
        THEN <<"Description cannot exceed 1000 characters">> ELSE <<>>)
    \o (IF Has(b, "completed") /\ ~IsBoolean(b.completed)
        THEN <<"Completed must be true or false">> ELSE <<>>)

\* the assignments guarded by if (req.body.title), if (req.body.description),
\* if (req.body.completed): an empty or false value is taken for an absent one
AssignIfTruthy(doc, b) ==
    [doc EXCEPT
        !.title = IF Has(b, "title") /\ Trim(b.title) # <<>> THEN Trim(b.title) ELSE @,
        !.description = IF Has(b, "description") /\ Trim(b.description) # <<>>
                        THEN Trim(b.description) ELSE @,
        !.completed = IF Has(b, "completed") /\ CastBoolean(b.completed)
                      THEN TRUE ELSE @]

\* the three conditional assignments of the handler, on the document in memory
Assign(doc, b) ==
    [doc EXCEPT
        !.title = IF Has(b, "title") THEN Trim(b.title) ELSE @,
        !.description = IF Has(b, "description") THEN Trim(b.description) ELSE @,
        !.completed = IF Has(b, "completed") THEN CastBoolean(b.completed) ELSE @]

\* the paths Mongoose marks modified: those whose value the assignments changed
Modified(doc, b) ==
    {k \in {"title", "description", "completed"} : Assign(doc, b)[k] # doc[k]}

\* how the task of the request's :id looks to the caller when the handler runs
Seen(id, uid) ==
    IF id \notin DOMAIN tasks THEN "absent"
    ELSE IF tasks[id].user = uid THEN "own" ELSE "foreign"

\* a handler that fetches by id and then tells a foreign task from a missing one
ForbiddenOrNotFound(q) ==
    IF q.seen = "foreign"
    THEN Reply(q, 403, "Not authorized to access this task", <<>>)
    ELSE Reply(q, 404, "Task not found", <<>>)

\* if (!task) return res.status(404).json({ message: 'Task not found' })
NotFound(q) == Reply(q, 404, "Task not found", <<>>)

\* a handler that calls Task.findOne first and reads validationResult only
\* when the task was found
UpdateLookupFirst(r, id, b) ==
    /\ reqs[r].pc = "handler" /\ reqs[r].kind = "update"
    /\ LET q == [reqs[r] EXCEPT !.id = id, !.body = b, !.seen = Seen(id, reqs[r].user),
                                !.log = @ \cup {"validate"}]
           errs == UpdateErrors(b)
           q2 == [q EXCEPT !.log = @ \cup {"Task.findOne"}]
           found == TaskFindOne(id, q.user)
       IN  IF ~ValidId(id)
           THEN /\ resp' = Reply(q2, 500, "Server error while updating task", <<>>)
                /\ reqs' = [reqs EXCEPT ![r] = Idle]
           ELSE IF found = {}
           THEN /\ resp' = NotFound(q2)
                /\ reqs' = [reqs EXCEPT ![r] = Idle]
           ELSE IF errs # <<>>
           THEN /\ resp' = Reply(q2, 400, errs[1], <<>>)
                /\ reqs' = [reqs EXCEPT ![r] = Idle]
           ELSE LET task == CHOOSE d \in found : TRUE IN
                /\ reqs' = [reqs EXCEPT ![r] =
                               [q2 EXCEPT !.pc = "save", !.doc = Assign(task, b),
                                          !.mod = Modified(task, b)]]
                /\ resp' = NoResp
    /\ UNCHANGED <<users, tasks, nextUserId, nextTaskId, now, ticks, issued, client>>

\* validation, Task.findOne and the assignments, up to the await of task.save()
UpdateLookup(r, id, b) ==
    /\ reqs[r].pc = "handler" /\ reqs[r].kind = "update"
    /\ LET q == [reqs[r] EXCEPT !.id = id, !.body = b, !.seen = Seen(id, reqs[r].user),
                                !.log = @ \cup {"validate"}]
           errs == UpdateErrors(b)
           q2 == [q EXCEPT !.log = @ \cup {"Task.findOne"}]
           found == TaskFindOne(id, q.user)
       IN  IF errs # <<>>
           THEN /\ resp' = Reply(q, 400, errs[1], <<>>)
                /\ reqs' = [reqs EXCEPT ![r] = Idle]
           ELSE IF ~ValidId(id)
           THEN /\ resp' = Reply(q2, 500, "Server error while updating task", <<>>)
                /\ reqs' = [reqs EXCEPT ![r] = Idle]
           ELSE IF found = {}
           THEN /\ resp' = NotFound(q2)
                /\ reqs' = [reqs EXCEPT ![r] = Idle]
           ELSE LET task == CHOOSE d \in found : TRUE IN
                /\ reqs' = [reqs EXCEPT ![r] =
                               [q2 EXCEPT !.pc = "save", !.doc = Assign(task, b),
                                          !.mod = Modified(task, b)]]
                /\ resp' = NoResp
    /\ UNCHANGED <<users, tasks, nextUserId, nextTaskId, now, ticks, issued, client>>

\* task.save() and the response.  A save whose document is gone from the
\* collection throws DocumentNotFoundError, which the catch turns into a 500.
UpdateSave(r) ==
    /\ reqs[r].pc = "save"
    /\ LET q == [reqs[r] EXCEPT !.log = @ \cup {"task.save"}] IN
       IF q.id \in DOMAIN tasks
       THEN /\ tasks' = [tasks EXCEPT ![q.id] = SavedTask(@, q.doc, q.mod)]
            /\ resp' = Reply(q, 200, "", <<q.doc>>)
       ELSE /\ resp' = Reply(q, 500, "Server error while updating task", <<>>)
            /\ UNCHANGED tasks
    /\ reqs' = [reqs EXCEPT ![r] = Idle]
    /\ UNCHANGED <<users, nextUserId, nextTaskId, now, ticks, issued, client>>

-----------------------------------------------------------------------------
(* DELETE /api/tasks/:id *)

\* Task.findOne, up to the await of task.deleteOne()
DeleteLookup(r, id) ==
    /\ reqs[r].pc = "handler" /\ reqs[r].kind = "delete"
    /\ LET q == [reqs[r] EXCEPT !.id = id, !.seen = Seen(id, reqs[r].user),
                                !.log = @ \cup {"Task.findOne"}]
           found == TaskFindOne(id, q.user)
       IN  IF ~ValidId(id)
           THEN /\ resp' = Reply(q, 500, "Server error while deleting task", <<>>)
                /\ reqs' = [reqs EXCEPT ![r] = Idle]
           ELSE IF found = {}
           THEN /\ resp' = NotFound(q)
                /\ reqs' = [reqs EXCEPT ![r] = Idle]
           ELSE /\ reqs' = [reqs EXCEPT ![r] = [q EXCEPT !.pc = "remove"]]
                /\ resp' = NoResp
    /\ UNCHANGED <<users, tasks, nextUserId, nextTaskId, now, ticks, issued, client>>

\* Task.deleteMany({ user }) in place of task.deleteOne()
DeleteMany(r) ==
    /\ reqs[r].pc = "remove"
    /\ LET q == [reqs[r] EXCEPT !.log = @ \cup {"task.deleteOne"}] IN
       /\ tasks' = [t \in {x \in DOMAIN tasks : tasks[x].user # q.user} |-> tasks[t]]
       /\ resp' = Reply(q, 200, "Task deleted successfully", <<>>)
    /\ reqs' = [reqs EXCEPT ![r] = Idle]
    /\ UNCHANGED <<users, nextUserId, nextTaskId, now, ticks, issued, client>>

\* task.deleteOne() and the response; deleting a document that is already gone
\* deletes nothing and does not throw
DeleteRemove(r) ==
    /\ reqs[r].pc = "remove"
    /\ LET q == [reqs[r] EXCEPT !.log = @ \cup {"task.deleteOne"}] IN
       /\ tasks' = [t \in DOMAIN tasks \ {q.id} |-> tasks[t]]
       /\ resp' = Reply(q, 200, "Task deleted successfully", <<>>)
    /\ reqs' = [reqs EXCEPT ![r] = Idle]
    /\ UNCHANGED <<users, nextUserId, nextTaskId, now, ticks, issued, client>>

-----------------------------------------------------------------------------
(* The User model and the validators of routes/auth.js *)

ToLowerChar(c) ==
    CASE c = "A" -> "a" [] c = "B" -> "b" [] c = "X" -> "x" [] OTHER -> c

ToLower(s) == [i \in 1..Len(s) |-> ToLowerChar(s[i])]

WordChars == {"a", "b", "x", "i", "o", "n", "f", "A", "B", "X"}

\* the positions of character c in s
Positions(s, c) == {i \in 1..Len(s) : s[i] = c}

Max(S) == CHOOSE x \in S : \A y \in S : y <= x

LocalPart(e) == SubSeq(e, 1, Max(Positions(e, "@")) - 1)

DomainPart(e) == SubSeq(e, Max(Positions(e, "@")) + 1, Len(e))

\* the last label of a domain
Tld(d) == SubSeq(d, Max(Positions(d, ".")) + 1, Len(d))

\* validator isEmail, for addresses over WordChars, "+", "." and "@":
\* one "@", a non-empty local part, a domain of non-empty labels whose last
\* label has at least two characters
IsEmail(e) ==
    /\ Cardinality(Positions(e, "@")) = 1
    /\ LocalPart(e) # <<>>
    /\ \A i \in 1..Len(LocalPart(e)) : LocalPart(e)[i] \in WordChars \cup {"+"}
    /\ LET d == DomainPart(e) IN
       /\ Cardinality(Positions(d, ".")) = 1
       /\ \A i \in 1..Len(d) : d[i] \in WordChars \cup {"."}
       /\ d[1] # "."
       /\ Len(Tld(d)) >= 2

\* a chain without .normalizeEmail(): the address is used as it was sent
KeepEmail(e) == e

\* normalizeEmail (all_lowercase) for a domain that is not a mail provider
\* with rules of its own
NormalizeEmail(e) == ToLower(e)

\* the match regexp of userSchema.email,
\* /^\w+([\.-]?\w+)*@\w+([\.-]?\w+)*(\.\w{2,3})+$/, on an address IsEmail accepts
EmailMatch(e) ==
    /\ \A i \in 1..Len(LocalPart(e)) : LocalPart(e)[i] \in WordChars
    /\ Len(Tld(DomainPart(e))) \in {2, 3}

\* bcryptjs keys the cipher with the first 72 bytes of the password, and no
\* more
BcryptMaxBytes == 72

BcryptKey(password) ==
    SubSeq(password, 1, IF Len(password) < BcryptMaxBytes THEN Len(password)
                        ELSE BcryptMaxBytes)

\* bcrypt.hash(password, salt): a term that stands for the one-way image of
\* the key under the salt
BcryptHash(password, salt) == <<"$2a$10$", salt, BcryptKey(password)>>

\* bcrypt.compare(password, hash): hashes password with the salt kept in hash
BcryptCompare(password, hash) == BcryptHash(password, hash[2]) = hash

\* a register handler without the email check
UserByEmailSkipped(email) == {}

\* User.findOne({ email }) and User.findOne({ username })
UserByEmail(email) == {users[u] : u \in {x \in DOMAIN users : users[x].email = email}}

UserByUsername(name) ==
    {users[u] : u \in {x \in DOMAIN users : users[x].username = name}}

\* a schema without unique: true
NoUniqueIndex(doc) == FALSE

\* the unique indexes of userSchema (username, email) reject the insert
DuplicateKey(doc) ==
    \E u \in DOMAIN users :
        users[u].username = doc.username \/ users[u].email = doc.email

\* user: user, the whole document in the response
UserDocument(u) == [id |-> u._id, username |-> u.username, email |-> u.email,
                    password |-> u.password]

\* the user object of the auth responses
PublicUser(u) == [id |-> u._id, username |-> u.username, email |-> u.email]

\* the token is handed to the client
Issue(tok) ==
    /\ tok \in issued \/ Cardinality(issued) < MaxTokens
    /\ issued' = issued \cup {tok}

-----------------------------------------------------------------------------
(* POST /api/auth/register *)

\* the chain of /register without .trim() on the username
RegisterErrorsNoTrim(b) ==
    (IF ~Has(b, "username") \/ Len(b.username) < MinUsernameLen
        THEN <<"Username must be at least 3 characters long">> ELSE <<>>)
    \o (IF ~Has(b, "email") \/ ~IsEmail(b.email)
        THEN <<"Please provide a valid email">> ELSE <<>>)
    \o (IF ~Has(b, "password") \/ Len(b.password) < MinPasswordLen
        THEN <<"Password must be at least 6 characters long">> ELSE <<>>)

\* the messages of the validation chain of /register, in the order of the chain
RegisterErrors(b) ==
    (IF ~Has(b, "username") \/ Len(Trim(b.username)) < MinUsernameLen
        THEN <<"Username must be at least 3 characters long">> ELSE <<>>)
    \o (IF ~Has(b, "email") \/ ~IsEmail(b.email)
        THEN <<"Please provide a valid email">> ELSE <<>>)
    \o (IF ~Has(b, "password") \/ Len(b.password) < MinPasswordLen
        THEN <<"Password must be at least 6 characters long">> ELSE <<>>)

\* req.body after the sanitizers of the chain
RegisterSanitized(b) ==
    [username |-> Trim(b.username), email |-> NormalizeEmail(b.email),
     password |-> b.password]

\* which of the fields of the sanitized body b a stored user already holds
\* when the request arrives
Held(b) ==
    LET email == \E u \in DOMAIN users : users[u].email = b.email
        name == \E u \in DOMAIN users : users[u].username = b.username
    IN  IF email THEN (IF name THEN "both" ELSE "email")
        ELSE (IF name THEN "username" ELSE "free")

\* validation and User.findOne({ email })
RegisterStart(r, b) ==
    /\ FreeSlot(r)
    /\ LET q == [Idle EXCEPT !.kind = "register", !.body = b, !.sent = b,
                             !.log = {"validate"}]
           errs == RegisterErrors(b)
       IN  IF errs # <<>>
           THEN /\ resp' = Reply(q, 400, errs[1], <<>>)
                /\ UNCHANGED reqs
           ELSE LET q2 == [q EXCEPT !.body = RegisterSanitized(b),
                                    !.seen = Held(RegisterSanitized(b)),
                                    !.log = @ \cup {"User.findOne"}] IN
                IF UserByEmail(q2.body.email) # {}
                THEN /\ resp' = Reply(q2, 400, "User already exists with this email", <<>>)
                     /\ UNCHANGED reqs
                ELSE /\ reqs' = [reqs EXCEPT ![r] = [q2 EXCEPT !.pc = "checkUsername"]]
                     /\ resp' = NoResp
    /\ UNCHANGED <<users, tasks, nextUserId, nextTaskId, now, ticks, issued, client>>

\* User.findOne({ username })
RegisterCheckUsername(r) ==
    /\ reqs[r].pc = "checkUsername"
    /\ IF UserByUsername(reqs[r].body.username) # {}
       THEN /\ resp' = Reply(reqs[r], 400, "Username already taken", <<>>)
            /\ reqs' = [reqs EXCEPT ![r] = Idle]
       ELSE /\ reqs' = [reqs EXCEPT ![r].pc = "createUser"]
            /\ resp' = NoResp
    /\ UNCHANGED <<users, tasks, nextUserId, nextTaskId, now, ticks, issued, client>>

\* bcrypt.genSalt, bcrypt.hash, User.create, jwt.sign and the response.  A
\* document the schema rejects, or a duplicate key, makes User.create throw;
\* the catch answers 500.
RegisterCreate(r, salt) ==
    /\ reqs[r].pc = "createUser"
    /\ LET q == [reqs[r] EXCEPT !.log = @ \cup {"User.create"}]
           doc == [_id |-> nextUserId, username |-> q.body.username,
                   email |-> q.body.email,
                   password |-> BcryptHash(q.body.password, salt)]
       IN  IF ~EmailMatch(doc.email) \/ DuplicateKey(doc)
           THEN /\ resp' = Reply(q, 500, "Server error during registration", <<>>)
                /\ UNCHANGED <<users, nextUserId, issued>>
           ELSE /\ nextUserId <= MaxUsers
                /\ users' = [u \in DOMAIN users \cup {nextUserId} |->
                                IF u = nextUserId THEN doc ELSE users[u]]
                /\ nextUserId' = nextUserId + 1
                /\ Issue(JwtSign(doc._id, now))
                /\ resp' = Reply([q EXCEPT !.user = doc._id], 201,
                                 "User registered successfully",
                                 <<[token |-> JwtSign(doc._id, now), user |-> PublicUser(doc)]>>)
    /\ reqs' = [reqs EXCEPT ![r] = Idle]
    /\ UNCHANGED <<tasks, nextTaskId, now, ticks, client>>

-----------------------------------------------------------------------------
(* POST /api/auth/login *)

\* the messages of the validation chain of /login, in the order of the chain
LoginErrors(b) ==
    (IF ~Has(b, "email") \/ ~IsEmail(b.email)
        THEN <<"Please provide a valid email">> ELSE <<>>)
    \o (IF ~Has(b, "password") \/ b.password = <<>>
        THEN <<"Password is required">> ELSE <<>>)

\* a login that keeps the session on the server: the token is saved in the
\* user document
LoginStoringToken(r, b) ==
    /\ FreeSlot(r)
    /\ LET q == [Idle EXCEPT !.kind = "login", !.body = b, !.log = {"validate"}]
           errs == LoginErrors(b)
           q2 == [q EXCEPT !.log = @ \cup {"User.findOne"}]
           found == UserByEmail(NormalizeEmail(b.email))
       IN  IF errs # <<>>
           THEN /\ resp' = Reply(q, 400, errs[1], <<>>)
                /\ UNCHANGED <<issued, users>>
           ELSE IF found = {}
           THEN /\ resp' = Reply(q2, 401, "Invalid email or password", <<>>)
                /\ UNCHANGED <<issued, users>>
           ELSE LET user == CHOOSE u \in found : TRUE IN
                IF ~BcryptCompare(b.password, user.password)
                THEN /\ resp' = Reply(q2, 401, "Invalid email or password", <<>>)
                     /\ UNCHANGED <<issued, users>>
                ELSE /\ Issue(JwtSign(user._id, now))
                     /\ users' = [users EXCEPT ![user._id] =
                                     [_id |-> user._id, username |-> user.username,
                                      email |-> user.email, password |-> user.password,
                                      token |-> JwtSign(user._id, now)]]
                     /\ resp' = Reply([q2 EXCEPT !.user = user._id], 200, "Login successful",
                                      <<[token |-> JwtSign(user._id, now),
                                         user |-> PublicUser(user)]>>)
    /\ UNCHANGED <<tasks, nextUserId, nextTaskId, now, ticks, reqs, client>>

\* the whole handler: User.findOne is its only database call
Login(r, b) ==
    /\ FreeSlot(r)
    /\ LET q == [Idle EXCEPT !.kind = "login", !.body = b, !.log = {"validate"}]
           errs == LoginErrors(b)
           q2 == [q EXCEPT !.log = @ \cup {"User.findOne"}]
           found == UserByEmail(NormalizeEmail(b.email))
       IN  IF errs # <<>>
           THEN /\ resp' = Reply(q, 400, errs[1], <<>>)
                /\ UNCHANGED issued
           ELSE IF found = {}
           THEN /\ resp' = Reply(q2, 401, "Invalid email or password", <<>>)
                /\ UNCHANGED issued
           ELSE LET user == CHOOSE u \in found : TRUE IN
                IF ~BcryptCompare(b.password, user.password)
                THEN /\ resp' = Reply(q2, 401, "Invalid email or password", <<>>)
                     /\ UNCHANGED issued
                ELSE /\ Issue(JwtSign(user._id, now))
                     /\ resp' = Reply([q2 EXCEPT !.user = user._id], 200, "Login successful",
                                      <<[token |-> JwtSign(user._id, now),
                                         user |-> PublicUser(user)]>>)
    /\ UNCHANGED <<users, tasks, nextUserId, nextTaskId, now, ticks, reqs, client>>

-----------------------------------------------------------------------------
(* A call that throws: the database is unreachable, or jwt.sign has no key *)

\* the message of the catch of each route
ServerError(kind) ==
    CASE kind = "list" -> "Server error while fetching tasks"
      [] kind = "create" -> "Server error while creating task"
      [] kind = "update" -> "Server error while updating task"
      [] kind = "delete" -> "Server error while deleting task"
      [] kind = "register" -> "Server error during registration"
      [] kind = "login" -> "Server error during login"
      [] OTHER -> ""

\* protect when User.findById throws: the try that holds jwt.verify holds
\* the lookup too, and its catch answers 401
ProtectFindByIdThrows(r, kind, hdr) ==
    /\ FreeSlot(r)
    /\ StartsWith(hdr.scheme, BearerWord) /\ JwtVerify(hdr.tok, now)
    /\ resp' = Reply([Idle EXCEPT !.kind = kind, !.hdr = hdr,
                                  !.log = {"User.findById", "throws"}],
                     401, "Not authorized, token failed", <<>>)
    /\ UNCHANGED <<users, tasks, nextUserId, nextTaskId, now, ticks, issued, reqs, client>>

\* the first database call of a task handler throws (Task.find, Task.create,
\* Task.findOne); a body that fails validation is answered before the call
TaskHandlerThrows(r, id, b) ==
    /\ reqs[r].pc = "handler"
    /\ reqs[r].kind = "create" => CreateErrors(b) = <<>>
    /\ reqs[r].kind = "update" => UpdateErrors(b) = <<>>
    /\ resp' = Reply([reqs[r] EXCEPT !.id = id, !.body = b, !.log = @ \cup {"throws"}],
                     500, ServerError(reqs[r].kind), <<>>)
    /\ reqs' = [reqs EXCEPT ![r] = Idle]
    /\ UNCHANGED <<users, tasks, nextUserId, nextTaskId, now, ticks, issued, client>>

\* task.save() or task.deleteOne() throws
TaskWriteThrows(r) ==
    /\ reqs[r].pc \in {"save", "remove"}
    /\ resp' = Reply([reqs[r] EXCEPT !.log = @ \cup {"throws"}],
                     500, ServerError(reqs[r].kind), <<>>)
    /\ reqs' = [reqs EXCEPT ![r] = Idle]
    /\ UNCHANGED <<users, tasks, nextUserId, nextTaskId, now, ticks, issued, client>>

\* User.findOne({ email }) of /register throws
RegisterFindOneThrows(r, b) ==
    /\ FreeSlot(r)
    /\ RegisterErrors(b) = <<>>
    /\ resp' = Reply([Idle EXCEPT !.kind = "register", !.body = RegisterSanitized(b),
                                  !.sent = b,
                                  !.log = {"validate", "User.findOne", "throws"}],
                     500, ServerError("register"), <<>>)
    /\ UNCHANGED <<users, tasks, nextUserId, nextTaskId, now, ticks, issued, reqs, client>>

\* User.findOne({ username }) or User.create throws: nothing is stored
RegisterThrows(r) ==
    /\ reqs[r].pc \in {"checkUsername", "createUser"}
    /\ resp' = Reply([reqs[r] EXCEPT !.log = @ \cup {"throws"}],
                     500, ServerError("register"), <<>>)
    /\ reqs' = [reqs EXCEPT ![r] = Idle]
    /\ UNCHANGED <<users, tasks, nextUserId, nextTaskId, now, ticks, issued, client>>

\* User.create stores the user and jwt.sign throws: the catch answers 500 and
\* the user stays stored
RegisterSignThrows(r, salt) ==
    /\ reqs[r].pc = "createUser"
    /\ LET q == [reqs[r] EXCEPT !.log = @ \cup {"User.create", "jwt.sign", "throws"}]
           doc == [_id |-> nextUserId, username |-> q.body.username,
                   email |-> q.body.email,
                   password |-> BcryptHash(q.body.password, salt)]
       IN  /\ EmailMatch(doc.email) /\ ~DuplicateKey(doc)
           /\ nextUserId <= MaxUsers
           /\ users' = [u \in DOMAIN users \cup {nextUserId} |->
                           IF u = nextUserId THEN doc ELSE users[u]]
           /\ nextUserId' = nextUserId + 1
           /\ resp' = Reply(q, 500, ServerError("register"), <<>>)
    /\ reqs' = [reqs EXCEPT ![r] = Idle]
    /\ UNCHANGED <<tasks, nextTaskId, now, ticks, issued, client>>

\* User.findOne({ email }) of /login throws
LoginFindOneThrows(r, b) ==
    /\ FreeSlot(r)
    /\ LoginErrors(b) = <<>>
    /\ resp' = Reply([Idle EXCEPT !.kind = "login", !.body = b,
                                  !.log = {"validate", "User.findOne", "throws"}],
                     500, ServerError("login"), <<>>)
    /\ UNCHANGED <<users, tasks, nextUserId, nextTaskId, now, ticks, issued, reqs, client>>

-----------------------------------------------------------------------------
(* The environment *)

\* d days pass
Tick(d) ==
    /\ ticks < MaxTicks
    /\ now' = now + d
    /\ ticks' = ticks + 1
    /\ resp' = NoResp
    /\ UNCHANGED <<users, tasks, nextUserId, nextTaskId, issued, reqs, client>>

\* a user document is removed from the collection behind the routes' back (no
\* route deletes users; protect allows for it)
UserRemoved(u) ==
    /\ u \in DOMAIN users
    /\ users' = [x \in DOMAIN users \ {u} |-> users[x]]
    /\ resp' = NoResp
    /\ UNCHANGED <<tasks, nextUserId, nextTaskId, now, ticks, issued, reqs, client>>

-----------------------------------------------------------------------------
(* The browser: services/api.js, AuthProvider, ProtectedRoute, Dashboard *)

\* the request interceptor: the Authorization header of a request
RequestInterceptor ==
    IF client.token # NoToken THEN Bearer(client.token) ELSE NoHeader

\* a response interceptor that lets a 401 pass untouched
ResponseInterceptorIdle(c, status) == c

\* the response interceptor: a 401 removes 'token' and 'user' from localStorage
ResponseInterceptor(c, status) ==
    IF status = 401 THEN [c EXCEPT !.token = NoToken, !.stored = EmptyBody] ELSE c

\* isAuthenticated() that looks at the user state only
IsAuthenticatedByUser == client.user # EmptyBody

\* isAuthenticated(): !!user && !!localStorage.getItem('token')
IsAuthenticated == client.user # EmptyBody /\ client.token # NoToken

\* what ProtectedRoute renders
ProtectedRoute == IF ~IsAuthenticated THEN "/login" ELSE "children"

\* setTasks of handleCreateTask with the new task put last
AppendTask(newTask, prevTasks) == prevTasks \o <<newTask>>

\* setTasks of handleCreateTask: [newTask, ...prevTasks]
PrependTask(newTask, prevTasks) == <<newTask>> \o prevTasks

\* setTasks of handleUpdateTask: the task with that _id is replaced in place
ReplaceTask(taskId, updatedTask, prevTasks) ==
    [i \in DOMAIN prevTasks |->
        IF prevTasks[i]._id = taskId THEN updatedTask ELSE prevTasks[i]]

\* prevTasks.filter((task) => task._id !== taskId)
RECURSIVE FilterTask(_, _)
FilterTask(taskId, prevTasks) ==
    IF prevTasks = <<>> THEN <<>>
    ELSE IF Head(prevTasks)._id = taskId THEN FilterTask(taskId, Tail(prevTasks))
    ELSE <<Head(prevTasks)>> \o FilterTask(taskId, Tail(prevTasks))

\* the session has no request under way and no response to handle
Settled == resp.status = 0 /\ \A r \in Slots : reqs[r] = Idle

\* the response reaches the browser: the response interceptor runs, then the
\* function that awaits the call goes on (login and register of AuthProvider,
\* which lead to a freshly mounted Dashboard; fetchTasks, handleCreateTask,
\* handleUpdateTask and handleDeleteTask of Dashboard, whose catch leaves the
\* list as it is)
Receive ==
    /\ resp.status # 0
    /\ LET c == ResponseInterceptor(client, resp.status) IN
       client' =
           CASE resp.kind \in {"login", "register"} /\ resp.status \in {200, 201} ->
                    [c EXCEPT !.token = resp.out[1].token, !.stored = resp.out[1].user,
                              !.user = resp.out[1].user, !.tasks = <<>>,
                              !.fetched = FALSE]
             [] resp.kind = "list" /\ resp.status = 200 ->
                    [c EXCEPT !.tasks = resp.out, !.fetched = TRUE]
             [] resp.kind = "create" /\ resp.status = 201 ->
                    [c EXCEPT !.tasks = PrependTask(resp.out[1], @)]
             [] resp.kind = "update" /\ resp.status = 200 ->
                    [c EXCEPT !.tasks = ReplaceTask(resp.id, resp.out[1], @)]
             [] resp.kind = "delete" /\ resp.status = 200 ->
                    [c EXCEPT !.tasks = FilterTask(resp.id, @)]
             [] OTHER -> c
    /\ resp' = NoResp
    /\ UNCHANGED <<users, tasks, nextUserId, nextTaskId, now, ticks, issued, reqs>>

\* the page is loaded anew (window.location.href = '/login' of the response
\* interceptor, or a refresh): the user state starts from localStorage and
\* Dashboard, when it mounts, starts with an empty list
Reload ==
    /\ client' = [client EXCEPT !.user = client.stored, !.tasks = <<>>,
                                !.fetched = FALSE]
    /\ resp' = NoResp
    /\ UNCHANGED <<users, tasks, nextUserId, nextTaskId, now, ticks, issued, reqs>>

\* logout() of AuthProvider, called by handleLogout of Dashboard, which then
\* leaves for /login: 'token' and 'user' are removed from localStorage, the
\* user state is cleared, and nothing is sent to the server
Logout ==
    /\ client' = NoClient
    /\ resp' = NoResp
    /\ UNCHANGED <<users, tasks, nextUserId, nextTaskId, now, ticks, issued, reqs>>

-----------------------------------------------------------------------------
(* Inputs *)

TaskKinds == {"list", "create", "update", "delete"}

\* the :id parameters tried: every id a task can have, and a malformed one
TaskIds == 0..MaxTasks

LongTitle == Rep("a", MaxTitleLen + 1)

LongDesc == Rep("x", MaxDescLen + 1)

Secret == <<"s", "e", "c", "r", "e", "t">>

Hunter == <<"h", "u", "n", "t", "e", "r">>

AnnName == <<"a", "n", "n">>

BobName == <<"b", "o", "b">>

AnnMail == <<"a", "@", "x", ".", "i", "o">>

BobMail == <<"b", "@", "x", ".", "i", "o">>

Salts == {"s1"}

\* two secrets longer than bcrypt's key that differ in their last character
LongSecretY == Rep("x", BcryptMaxBytes) \o <<"y">>

LongSecretZ == Rep("x", BcryptMaxBytes) \o <<"z">>

\* an address nobody registers with
NobodyMail == <<"n", "@", "x", ".", "i", "o">>

-----------------------------------------------------------------------------
(* The task routes, for two registered users *)

Ann ==
    [_id |-> 1, username |-> AnnName, email |-> AnnMail,
     password |-> BcryptHash(Secret, "s1")]

Bob ==
    [_id |-> 2, username |-> BobName, email |-> BobMail,
     password |-> BcryptHash(Secret, "s1")]

\* the state after ann and then bob have registered at time 0
InitTasks ==
    /\ users = <<Ann, Bob>>
    /\ tasks = EmptyBody
    /\ nextUserId = 3
    /\ nextTaskId = 1
    /\ now = 0
    /\ ticks = 0
    /\ issued = {JwtSign(1, 0), JwtSign(2, 0)}
    /\ reqs = [r \in Slots |-> Idle]
    /\ resp = Reply([Idle EXCEPT !.kind = "register", !.user = 2, !.seen = "free",
                                 !.body = [username |-> BobName, email |-> BobMail,
                                           password |-> Secret],
                                 !.log = {"validate", "User.findOne", "User.create"}],
                    201, "User registered successfully",
                    <<[token |-> JwtSign(2, 0), user |-> PublicUser(Bob)]>>)
    /\ client = NoClient

\* bodies of POST /: a plain one, one that names another owner and asks for
\* completed, one that fails validation
CreateBodies ==
    {[title |-> <<"a">>],
     [title |-> <<"b">>, completed |-> "true", user |-> 1],
     [title |-> <<" ">>]}

\* bodies of PUT /:id
UpdateBodies ==
    {[completed |-> "true"],
     [title |-> <<"b">>, user |-> 2],
     [completed |-> "yes"]}

\* the headers of clients that hold a token, or none
TaskHeaders == {NoHeader} \cup {Bearer(tok) : tok \in issued}

NextTasks ==
    \/ \E r \in Slots, k \in TaskKinds, h \in TaskHeaders : Protect(r, k, h)
    \/ \E r \in Slots : List(r)
    \/ \E r \in Slots, b \in CreateBodies : Create(r, b)
    \/ \E r \in Slots, id \in TaskIds, b \in UpdateBodies : UpdateLookup(r, id, b)
    \/ \E r \in Slots : UpdateSave(r)
    \/ \E r \in Slots, id \in TaskIds : DeleteLookup(r, id)
    \/ \E r \in Slots : DeleteRemove(r)

SpecTasks == InitTasks /\ [][NextTasks]_vars

-----------------------------------------------------------------------------
(* Ownership scoping *)

\* a step changes or removes a task only on behalf of a request whose
\* resolved identity owns it
ChangedByOwner ==
    \A t \in DOMAIN tasks :
        (t \notin DOMAIN tasks' \/ tasks'[t] # tasks[t])
            => \E r \in Slots : reqs'[r] # reqs[r] /\ reqs[r].user = tasks[t].user

\* a response of a task route carries only tasks of the identity it answers
ReturnedToOwner ==
    resp.kind \in TaskKinds =>
        \A i \in 1..Len(resp.out) : resp.out[i].user = resp.user

\* C1: a task's fields and its existence are changed only by a step of a
\* request whose resolved identity is the task's owner, and a response of a
\* task route carries only tasks owned by the identity it answers.
C1_OwnerOnly == [][ChangedByOwner /\ ReturnedToOwner']_vars

\* an owner's update went through while a task of another user is stored
C1_Witness ==
    /\ resp.kind = "update" /\ resp.status = 200 /\ resp.mod # {}
    /\ \E t \in DOMAIN tasks : tasks[t].user # resp.user

\* the answer to an update or a delete whose task is absent, or is another
\* user's, when the handler runs
Missed == resp.kind \in {"update", "delete"} /\ resp.seen \in {"absent", "foreign"}

\* C2 as stated: update and delete answer 404 'Task not found' alike for an
\* absent task and for a task of another user.
C2_AlwaysNotFound == Missed => resp.status = 404 /\ resp.msg = "Task not found"

\* C2 amended: the answer is decided by the request alone, alike for an absent
\* and for a foreign task: 400 with the first validation message, before any
\* lookup, for an update whose body fails validation; else 500 for an id that
\* is no ObjectId; else 404 'Task not found'; and the step changes no task.
C2_SameAnswer ==
    [][Missed' =>
        /\ tasks' = tasks
        /\ IF resp'.kind = "update" /\ UpdateErrors(resp'.body) # <<>>
           THEN /\ resp'.status = 400
                /\ resp'.msg = UpdateErrors(resp'.body)[1]
                /\ "Task.findOne" \notin resp'.log
           ELSE IF ~ValidId(resp'.id)
           THEN resp'.status = 500
           ELSE resp'.status = 404 /\ resp'.msg = "Task not found"]_vars

\* a delete aimed at a stored task of another user was answered 404
C2_Witness ==
    /\ resp.kind = "delete" /\ resp.seen = "foreign" /\ resp.status = 404
    /\ resp.id \in DOMAIN tasks /\ tasks[resp.id].user # resp.user

\* the deleteOne step of a delete removes the task of the request's id, which
\* is the caller's, and no other
RemovesOne ==
    \A r \in Slots :
        (reqs[r].pc = "remove" /\ reqs'[r] = Idle) =>
            /\ resp'.status = 200
            /\ DOMAIN tasks' = DOMAIN tasks \ {reqs[r].id}
            /\ \A t \in DOMAIN tasks' : tasks'[t] = tasks[t]
            /\ reqs[r].id \in DOMAIN tasks => tasks[reqs[r].id].user = reqs[r].user

\* a list carries no task that has been removed
ListsStored ==
    resp.kind = "list" => \A i \in 1..Len(resp.out) : resp.out[i]._id \in DOMAIN tasks

\* the last step answered an update or a delete whose id was a task's and was
\* gone from the collection when the handler looked it up
Gone ==
    /\ resp.kind \in {"update", "delete"} /\ resp.seen = "absent"
    /\ ValidId(resp.id) /\ resp.id < nextTaskId

\* C15 as stated: a delete removes the task and no other, a later list does
\* not carry it, and a later delete or update of its id is answered 404 and
\* changes nothing.
C15_GoneIsNotFound ==
    [][/\ RemovesOne
       /\ ListsStored'
       /\ Gone' => /\ resp'.status = 404 /\ resp'.msg = "Task not found"
                   /\ tasks' = tasks]_vars

\* C15 amended: as stated, but an update of the removed id whose body fails
\* validation is answered 400 with the first validation message.
C15_GoneIsRefused ==
    [][/\ RemovesOne
       /\ ListsStored'
       /\ Gone' => /\ tasks' = tasks
                   /\ IF resp'.kind = "update" /\ UpdateErrors(resp'.body) # <<>>
                      THEN /\ resp'.status = 400
                           /\ resp'.msg = UpdateErrors(resp'.body)[1]
                      ELSE resp'.status = 404 /\ resp'.msg = "Task not found"]_vars

\* a second delete of a removed task was answered 404 while another task of
\* the caller is stored
C15_Witness ==
    /\ resp.kind = "delete" /\ resp.status = 404 /\ resp.seen = "absent"
    /\ ValidId(resp.id) /\ resp.id < nextTaskId
    /\ \E t \in DOMAIN tasks : tasks[t].user = resp.user

\* the last step answered an update whose body fails validation and whose
\* task is absent or another user's
InvalidAndMissed ==
    /\ resp.kind = "update" /\ resp.seen \in {"absent", "foreign"}
    /\ UpdateErrors(resp.body) # <<>>

\* C23 as stated: an update with an invalid field that targets an absent or
\* foreign task is answered 404 'Task not found', the lookup coming first.
C23_LookupFirst ==
    InvalidAndMissed =>
        /\ resp.status = 404 /\ resp.msg = "Task not found"
        /\ "Task.findOne" \in resp.log

\* C23 amended: the body is validated first; an update with an invalid field
\* is answered 400 with the first validation message and no lookup is made,
\* whatever its target; an update with a valid body and a well-formed id
\* whose task is absent or foreign is answered 404 'Task not found'.
C23_ValidationFirst ==
    [][/\ (resp'.kind = "update" /\ UpdateErrors(resp'.body) # <<>>)
             => /\ resp'.status = 400
                /\ resp'.msg = UpdateErrors(resp'.body)[1]
                /\ "Task.findOne" \notin resp'.log
                /\ tasks' = tasks
       /\ (resp'.kind = "update" /\ UpdateErrors(resp'.body) = <<>>
              /\ resp'.seen \in {"absent", "foreign"} /\ ValidId(resp'.id))
             => /\ resp'.status = 404 /\ resp'.msg = "Task not found"
                /\ tasks' = tasks]_vars

\* an update with completed: 'yes' aimed at another user's task got 400
C23_Witness ==
    /\ resp.kind = "update" /\ resp.seen = "foreign" /\ resp.status = 400
    /\ resp.msg = "Completed must be true or false"

\* C24: the save of an update answers 200 when its task is still stored and
\* 404 'Task not found' when a delete removed it after the lookup, never
\* 500, and does not store the task again; the deleteOne of a delete
\* answers 200.
C24_UpdateDeleteRace ==
    [][\A r \in Slots :
          /\ (reqs[r].pc = "save" /\ reqs'[r] = Idle) =>
                IF reqs[r].id \in DOMAIN tasks
                THEN resp'.status = 200
                ELSE /\ resp'.status = 404 /\ resp'.msg = "Task not found"
                     /\ reqs[r].id \notin DOMAIN tasks'
          /\ (reqs[r].pc = "remove" /\ reqs'[r] = Idle) => resp'.status = 200]_vars

\* C28: the save of an update answered 200 stores the fields the request
\* changed and leaves every field its body does not carry as it is stored,
\* also when another update of the task was saved after this one's lookup.
C28_DisjointUpdates ==
    [][\A r \in Slots :
          (reqs[r].pc = "save" /\ reqs'[r] = Idle /\ resp'.status = 200) =>
              \A k \in {"title", "description", "completed"} :
                  /\ ~Has(reqs[r].body, k) => tasks'[reqs[r].id][k] = tasks[reqs[r].id][k]
                  /\ k \in reqs[r].mod => tasks'[reqs[r].id][k] = reqs[r].doc[k]]_vars

\* an update of the title was saved over a task whose completed flag another
\* update had set after this one's lookup, and both changes are stored
C28_Witness ==
    /\ resp.kind = "update" /\ resp.status = 200 /\ resp.mod = {"title"}
    /\ resp.out[1].completed = FALSE
    /\ tasks[resp.id].completed = TRUE /\ tasks[resp.id].title = <<"b">>

\* C4: a task enters the collection only through a create, owned by the
\* identity of the token the request presented and not completed, whatever
\* the body says; and no step changes the owner of a stored task.
C4_OwnerIsCreator ==
    [][\A t \in DOMAIN tasks' :
          IF t \in DOMAIN tasks
          THEN tasks'[t].user = tasks[t].user
          ELSE /\ tasks'[t].completed = FALSE
               /\ \E r \in Slots :
                     /\ reqs[r].kind = "create" /\ reqs'[r] = Idle
                     /\ tasks'[t].user = reqs[r].hdr.tok.id]_vars

\* a create whose body named another owner and completed: true was stored
C4_Witness ==
    /\ resp.kind = "create" /\ resp.status = 201
    /\ Has(resp.body, "user") /\ resp.body.user # resp.user
    /\ Has(resp.body, "completed") /\ resp.body.completed = "true"
    /\ resp.id \in DOMAIN tasks

-----------------------------------------------------------------------------
(* Listing, with tasks created at different times *)

ListKinds == {"list", "create", "delete"}

ListBodies == {[title |-> <<"a">>]}

ListHeaders == {Bearer(tok) : tok \in issued}

NextList ==
    \/ \E r \in Slots, k \in ListKinds, h \in ListHeaders : Protect(r, k, h)
    \/ \E r \in Slots : List(r)
    \/ \E r \in Slots, b \in ListBodies : Create(r, b)
    \/ \E r \in Slots, id \in TaskIds : DeleteLookup(r, id)
    \/ \E r \in Slots : DeleteRemove(r)
    \/ Tick(1)

SpecList == InitTasks /\ [][NextList]_vars

\* C3: a list answered 200 carries each stored task of the identity the
\* token was issued to exactly once, no other task, newest first.
C3_ListExact ==
    [][\A r \in Slots :
          (reqs[r].kind = "list" /\ reqs[r].pc = "handler" /\ reqs'[r] = Idle
              /\ resp'.status = 200)
          => LET own == {tasks[t] : t \in {x \in DOMAIN tasks :
                                              tasks[x].user = reqs[r].hdr.tok.id}}
                 out == resp'.out
             IN  /\ Len(out) = Cardinality(own)
                 /\ {out[i] : i \in 1..Len(out)} = own
                 /\ \A i \in 1..(Len(out) - 1) : out[i].createdAt >= out[i + 1].createdAt]_vars

\* a list returned two tasks created at different times
C3_Witness ==
    /\ resp.kind = "list" /\ resp.status = 200 /\ Len(resp.out) = 2
    /\ resp.out[1].createdAt > resp.out[2].createdAt

-----------------------------------------------------------------------------
(* Tokens: issuance, expiry, removed users *)

AuthRegisterBodies ==
    {[username |-> AnnName, email |-> AnnMail, password |-> Secret],
     [username |-> BobName, email |-> BobMail, password |-> Secret]}

AuthLoginBodies ==
    {[email |-> AnnMail, password |-> Secret],
     [email |-> AnnMail, password |-> Hunter]}

AuthCreateBodies == {[title |-> <<"a">>]}

AuthUpdateBodies == {[completed |-> "true"]}

\* one request at a time
AuthSlots == {1}

NextAuth ==
    \/ \E r \in AuthSlots, b \in AuthRegisterBodies : RegisterStart(r, b)
    \/ \E r \in AuthSlots : RegisterCheckUsername(r)
    \/ \E r \in AuthSlots, s \in Salts : RegisterCreate(r, s)
    \/ \E r \in AuthSlots, b \in AuthLoginBodies : Login(r, b)
    \/ \E r \in AuthSlots, k \in TaskKinds, h \in Headers : Protect(r, k, h)
    \/ \E r \in AuthSlots : List(r)
    \/ \E r \in AuthSlots, b \in AuthCreateBodies : Create(r, b)
    \/ \E r \in AuthSlots, id \in TaskIds, b \in AuthUpdateBodies : UpdateLookup(r, id, b)
    \/ \E r \in AuthSlots : UpdateSave(r)
    \/ \E r \in AuthSlots, id \in TaskIds : DeleteLookup(r, id)
    \/ \E r \in AuthSlots : DeleteRemove(r)
    \/ Tick(TokenTTL)
    \/ \E u \in DOMAIN users : UserRemoved(u)

SpecAuth == Init /\ [][NextAuth]_vars

\* a credential protect must turn away at time t: no header, a header that
\* does not start with 'Bearer', a token not signed by the server or expired
BadCredential(h, t) ==
    \/ h.scheme = <<>>
    \/ Len(h.scheme) < Len(BearerWord)
    \/ \E i \in 1..Len(BearerWord) : h.scheme[i] # BearerWord[i]
    \/ h.tok.sig # "ok"
    \/ t >= h.tok.exp

\* the step is a request turned away by protect
Rejected == reqs' = reqs /\ resp'.kind \in TaskKinds

\* the step lets the request of slot r through protect
Admitted(r) == reqs[r] = Idle /\ reqs'[r].pc = "handler"

\* the token of an auth response is bound to the identity that authenticated
TokenBinds ==
    (resp.kind \in {"register", "login"} /\ resp.status \in {200, 201}) =>
        LET t == resp.out[1].token IN
        /\ t \in issued
        /\ t.id \in DOMAIN users
        /\ t.id = resp.out[1].user.id
        /\ users[t.id].email = NormalizeEmail(resp.body.email)

\* C5: a token issued by register or login is bound to the identity that
\* authenticated; protect admits only issued tokens and resolves each to the
\* identity it is bound to; a request changes only tasks of that identity and
\* is answered only with tasks of that identity.
C5_TokenScopes ==
    [][/\ TokenBinds'
       /\ \A r \in Slots :
             Admitted(r) => /\ reqs'[r].hdr.tok \in issued
                            /\ reqs'[r].user = reqs'[r].hdr.tok.id
       /\ \A t \in DOMAIN tasks :
             (t \notin DOMAIN tasks' \/ tasks'[t] # tasks[t])
                 => \E r \in Slots : reqs'[r] # reqs[r] /\ reqs[r].hdr.tok.id = tasks[t].user
       /\ resp'.kind \in TaskKinds =>
             \A i \in 1..Len(resp'.out) : resp'.out[i].user = resp'.hdr.tok.id]_vars

\* a list with an issued token returned the caller's task while a task of
\* another identity was stored
C5_Witness ==
    /\ resp.kind = "list" /\ resp.status = 200 /\ resp.out # <<>>
    /\ resp.hdr.tok \in issued
    /\ \E t \in DOMAIN tasks : tasks[t].user # resp.hdr.tok.id

\* C8: a validly signed, unexpired token whose identity is gone from the
\* users collection is answered 401 'User not found', and no request is let
\* through to a handler for an identity that is not stored.
C8_UserGone ==
    [][/\ \A r \in Slots : Admitted(r) => reqs'[r].hdr.tok.id \in DOMAIN users
       /\ (Rejected /\ ~BadCredential(resp'.hdr, now)
              /\ resp'.hdr.tok.id \notin DOMAIN users)
             => /\ resp'.status = 401 /\ resp'.msg = "User not found"
                /\ resp'.log = {"User.findById"}]_vars

\* an issued, unexpired token of a removed user was answered 'User not found'
C8_Witness ==
    /\ resp.kind \in TaskKinds /\ resp.status = 401 /\ resp.msg = "User not found"
    /\ resp.hdr.tok \in issued /\ now < resp.hdr.tok.exp
    /\ resp.hdr.tok.id \notin DOMAIN users

\* C17: no response of an auth route or of a task route, and no req.user
\* attached by protect, carries the password field of a user document.
C17_NoHashExposed ==
    /\ resp.kind \in {"register", "login"} =>
          \A i \in 1..Len(resp.out) :
              /\ DOMAIN resp.out[i] = {"token", "user"}
              /\ "password" \notin DOMAIN resp.out[i].user
              /\ DOMAIN resp.out[i].token = {"id", "iat", "exp", "sig"}
    /\ resp.kind \in TaskKinds =>
          \A i \in 1..Len(resp.out) : "password" \notin DOMAIN resp.out[i]
    /\ \A r \in Slots : "password" \notin DOMAIN reqs[r].ident

\* a login was answered 200 with the user object of a stored user
C17_Witness ==
    /\ resp.kind = "login" /\ resp.status = 200
    /\ resp.out[1].user.id \in DOMAIN users
    /\ "password" \in DOMAIN users[resp.out[1].user.id]

\* C18: a login and a pass through protect leave both collections as they
\* were; a register answered 201 adds one user document and changes nothing
\* else, any other register changes nothing; a user document has no field
\* for a token or a session.
C18_ReadOnlyAuth ==
    [][/\ resp'.kind = "login" => users' = users /\ tasks' = tasks
       /\ (Rejected \/ \E r \in Slots : Admitted(r)) => users' = users /\ tasks' = tasks
       /\ resp'.kind = "register" =>
             /\ tasks' = tasks
             /\ IF resp'.status = 201
                THEN /\ resp'.user \notin DOMAIN users
                     /\ DOMAIN users' = DOMAIN users \cup {resp'.user}
                     /\ \A u \in DOMAIN users : users'[u] = users[u]
                ELSE users' = users
       /\ \A u \in DOMAIN users' :
             DOMAIN users'[u] = {"_id", "username", "email", "password"}]_vars

\* a login was answered 200 while a task is stored
C18_Witness ==
    /\ resp.kind = "login" /\ resp.status = 200 /\ resp.out[1].token \in issued
    /\ DOMAIN tasks # {}

-----------------------------------------------------------------------------
(* The protect middleware in front of the four task routes *)

ProtectHeaders == Headers \cup {BearerX(tok) : tok \in issued}

NextProtect ==
    \/ \E r \in AuthSlots, k \in TaskKinds, h \in ProtectHeaders : Protect(r, k, h)
    \/ \E r \in AuthSlots : List(r)
    \/ \E r \in AuthSlots, b \in AuthCreateBodies : Create(r, b)
    \/ \E r \in AuthSlots, id \in TaskIds, b \in AuthUpdateBodies : UpdateLookup(r, id, b)
    \/ \E r \in AuthSlots : UpdateSave(r)
    \/ \E r \in AuthSlots, id \in TaskIds : DeleteLookup(r, id)
    \/ \E r \in AuthSlots : DeleteRemove(r)
    \/ Tick(TokenTTL)

SpecProtect == InitTasks /\ [][NextProtect]_vars

-----------------------------------------------------------------------------
(* Token expiry, day by day *)

ExpiryRegisterBodies == {[username |-> AnnName, email |-> AnnMail, password |-> Secret]}

ExpiryLoginBodies == {[email |-> AnnMail, password |-> Secret]}

ExpiryHeaders == {Bearer(tok) : tok \in issued}

NextExpiry ==
    \/ \E r \in AuthSlots, b \in ExpiryRegisterBodies : RegisterStart(r, b)
    \/ \E r \in AuthSlots : RegisterCheckUsername(r)
    \/ \E r \in AuthSlots, s \in Salts : RegisterCreate(r, s)
    \/ \E r \in AuthSlots, b \in ExpiryLoginBodies : Login(r, b)
    \/ \E r \in AuthSlots, k \in {"list", "create"}, h \in ExpiryHeaders : Protect(r, k, h)
    \/ \E r \in AuthSlots : List(r)
    \/ \E r \in AuthSlots, b \in AuthCreateBodies : Create(r, b)
    \/ \E d \in {1, TokenTTL} : Tick(d)
    \/ \E u \in DOMAIN users : UserRemoved(u)

SpecExpiry == Init /\ [][NextExpiry]_vars

\* C7: a validly signed token presented more than 30 days after it was issued
\* is answered 401 'Not authorized, token failed' and never admitted; presented
\* less than 30 days after, for an identity that is stored, it is admitted.
C7_Expiry ==
    [][/\ \A r \in Slots :
             Admitted(r) => now <= reqs'[r].hdr.tok.iat + TokenTTL
       /\ (Rejected /\ resp'.hdr.scheme = BearerWord /\ resp'.hdr.tok.sig = "ok")
             => /\ now > resp'.hdr.tok.iat + TokenTTL
                    => /\ resp'.status = 401
                       /\ resp'.msg = "Not authorized, token failed"
                /\ ~(now < resp'.hdr.tok.iat + TokenTTL
                        /\ resp'.hdr.tok.id \in DOMAIN users)]_vars

\* an issued token of a stored user was turned away after its expiry
C7_Witness ==
    /\ resp.kind \in TaskKinds /\ resp.status = 401
    /\ resp.msg = "Not authorized, token failed"
    /\ resp.hdr.tok \in issued /\ now > resp.hdr.tok.exp
    /\ resp.hdr.tok.id \in DOMAIN users

-----------------------------------------------------------------------------
(* Concurrent registrations *)

RegisterBodies ==
    {[username |-> AnnName, email |-> AnnMail, password |-> Secret],
     [username |-> BobName, email |-> BobMail, password |-> Secret],
     [username |-> AnnName, email |-> BobMail, password |-> Hunter],
     [username |-> <<" ">> \o BobName, email |-> <<"A", "@", "x", ".", "i", "o">>,
      password |-> Hunter],
     [username |-> <<"a", "l">>, email |-> AnnMail, password |-> Secret]}

NextRegister ==
    \/ \E r \in Slots, b \in RegisterBodies : RegisterStart(r, b)
    \/ \E r \in Slots : RegisterCheckUsername(r)
    \/ \E r \in Slots, s \in Salts : RegisterCreate(r, s)

SpecRegister == Init /\ [][NextRegister]_vars

\* C9: no two stored users have the same username, and no two the same email.
C9_Unique ==
    \A u, v \in DOMAIN users :
        u # v => /\ users[u].username # users[v].username
                 /\ users[u].email # users[v].email

\* two registrations passed the existence checks together; the second insert
\* was refused
C9_Witness ==
    /\ resp.kind = "register" /\ resp.status = 500 /\ resp.seen = "free"
    /\ \E u \in DOMAIN users :
          users[u].email = resp.body.email \/ users[u].username = resp.body.username

\* C26: the register that loses a race (its checks found email and username
\* free, and one of them is held when it inserts) is answered 400, not 500,
\* and stores nothing; the winner is answered 201.
C26_RaceIsConflict ==
    [][\A r \in Slots :
          (reqs[r].pc = "createUser" /\ reqs'[r] = Idle) =>
              IF \E u \in DOMAIN users :
                     \/ users[u].email = reqs[r].body.email
                     \/ users[u].username = reqs[r].body.username
              THEN resp'.status = 400 /\ users' = users
              ELSE resp'.status = 201]_vars

\* the answer to a register that found its email or its username held
C10State ==
    resp.kind = "register" =>
        /\ resp.seen \in {"email", "both"} =>
              resp.status = 400 /\ resp.msg = "User already exists with this email"
        /\ resp.seen = "username" =>
              resp.status = 400 /\ resp.msg = "Username already taken"

\* C10: a register whose email is held is answered 400 with the email
\* message, also when its username is held too; one whose username alone is
\* held is answered 400 'Username already taken'; a user is stored only by a
\* register that found neither held and is answered 201.
C10_Conflict ==
    [][/\ C10State'
       /\ users' # users => resp'.status = 201 /\ resp'.seen = "free"]_vars

\* a register whose email and username were both held got the email message
C10_Witness ==
    /\ resp.kind = "register" /\ resp.seen = "both" /\ resp.status = 400
    /\ resp.msg = "User already exists with this email"

-----------------------------------------------------------------------------
(* Register, then login *)

LoginRegisterBodies ==
    {[username |-> AnnName, email |-> AnnMail, password |-> Secret],
     [username |-> BobName, email |-> BobMail, password |-> LongSecretY]}

LoginBodies ==
    {[email |-> AnnMail, password |-> Secret],
     [email |-> AnnMail, password |-> Hunter],
     [email |-> BobMail, password |-> LongSecretY],
     [email |-> BobMail, password |-> LongSecretZ],
     [email |-> NobodyMail, password |-> Secret],
     [email |-> AnnMail]}

NextLogin ==
    \/ \E r \in AuthSlots, b \in LoginRegisterBodies : RegisterStart(r, b)
    \/ \E r \in AuthSlots : RegisterCheckUsername(r)
    \/ \E r \in AuthSlots, s \in Salts : RegisterCreate(r, s)
    \/ \E r \in AuthSlots, b \in LoginBodies : Login(r, b)
    \/ \E r \in AuthSlots, h \in ExpiryHeaders : Protect(r, "list", h)
    \/ \E r \in AuthSlots : List(r)
    \/ \E d \in {1, TokenTTL} : Tick(d)
    \/ Logout

SpecLogin == Init /\ [][NextLogin]_vars

\* the secret the owner of a registered address chose
SecretOf(email) ==
    (CHOOSE b \in LoginRegisterBodies : NormalizeEmail(b.email) = email).password

\* the stored user a login body names, if any
Named(b) == {u \in DOMAIN users : users[u].email = NormalizeEmail(b.email)}

\* the last step answered a well-formed login that names no stored user, or
\* names one and carries another secret than the user's
LoginMissed ==
    /\ resp.kind = "login" /\ LoginErrors(resp.body) = <<>>
    /\ \A u \in Named(resp.body) : resp.body.password # SecretOf(users[u].email)

\* C11: a login with an unknown email and a login with a known email and a
\* wrong password are answered alike, 401 'Invalid email or password', and
\* no token is issued.
C11_SameFailure ==
    [][LoginMissed' =>
          /\ resp'.status = 401 /\ resp'.msg = "Invalid email or password"
          /\ resp'.out = <<>>
          /\ issued' = issued]_vars

\* C12: the stored password of a user is never the secret the user registered
\* with; a login with the registered email and secret is answered 200 with a
\* token of that user, and a login with the email and any other secret fails.
C12_HashRoundTrip ==
    /\ \A u \in DOMAIN users : users[u].password # SecretOf(users[u].email)
    /\ (resp.kind = "login" /\ LoginErrors(resp.body) = <<>>) =>
          \A u \in Named(resp.body) :
              IF resp.body.password = SecretOf(users[u].email)
              THEN /\ resp.status = 200
                   /\ resp.out[1].token.id = u
                   /\ resp.out[1].token \in issued
              ELSE resp.status = 401 /\ resp.out = <<>>

\* C19: protect turns an issued token away only when it has expired or its
\* user is gone, whatever logins, further tokens and logouts came after it
\* was issued; an admitted token resolves to the user it was issued to.
C19_NoRevocation ==
    [][/\ (Rejected /\ resp'.hdr.scheme = BearerWord /\ resp'.hdr.tok \in issued)
             => (now >= resp'.hdr.tok.exp \/ resp'.hdr.tok.id \notin DOMAIN users)
       /\ \A r \in Slots :
             Admitted(r) => reqs'[r].user = reqs'[r].hdr.tok.id]_vars

\* a token was admitted after a later login had issued another token to the
\* same user
C19_Witness ==
    \E r \in Slots :
        /\ reqs[r].pc = "handler" /\ reqs[r].hdr.tok \in issued
        /\ \E t \in issued : t.id = reqs[r].hdr.tok.id /\ t.iat > reqs[r].hdr.tok.iat

-----------------------------------------------------------------------------
(* Creating and editing tasks, one request at a time *)

EditCreateBodies ==
    {[title |-> <<"a">>],
     [title |-> <<" ", "a", " ">>, description |-> <<" ", "d">>],
     [title |-> Rep("a", MaxTitleLen) \o <<" ">>],
     [title |-> <<>>],
     [title |-> <<" ", " ">>],
     [title |-> LongTitle],
     [title |-> <<"a">>, description |-> LongDesc],
     EmptyBody}

EditUpdateBodies ==
    {[completed |-> "true"],
     [completed |-> "false"],
     [description |-> <<>>],
     [title |-> <<" ", "b">>],
     [title |-> <<"b">>, description |-> <<"d">>],
     [title |-> <<" ">>]}

NextEdit ==
    \/ \E r \in AuthSlots, k \in {"create", "update"}, h \in ListHeaders : Protect(r, k, h)
    \/ \E r \in AuthSlots, b \in EditCreateBodies : Create(r, b)
    \/ \E r \in AuthSlots, id \in TaskIds, b \in EditUpdateBodies : UpdateLookup(r, id, b)
    \/ \E r \in AuthSlots : UpdateSave(r)

SpecEdit == InitTasks /\ [][NextEdit]_vars

\* C13: an update answered 200 sets each of title, description and completed
\* that the body carries, also to an empty or false value, and leaves every
\* absent field, the other fields and the other tasks as they were.
C13_PartialUpdate ==
    [][\A r \in Slots :
          (reqs[r].pc = "save" /\ reqs'[r] = Idle /\ resp'.status = 200) =>
              LET b == reqs[r].body
                  id == reqs[r].id
              IN  /\ DOMAIN tasks' = DOMAIN tasks
                  /\ \A t \in DOMAIN tasks \ {id} : tasks'[t] = tasks[t]
                  /\ tasks'[id].title =
                        IF Has(b, "title") THEN Trim(b.title) ELSE tasks[id].title
                  /\ tasks'[id].description =
                        IF Has(b, "description") THEN Trim(b.description)
                        ELSE tasks[id].description
                  /\ tasks'[id].completed =
                        IF Has(b, "completed") THEN b.completed \in {"true", "1"}
                        ELSE tasks[id].completed
                  /\ tasks'[id].user = tasks[id].user
                  /\ tasks'[id]._id = tasks[id]._id
                  /\ tasks'[id].createdAt = tasks[id].createdAt]_vars

\* update(id, {completed: false}) set a completed task back to not completed
C13_Witness ==
    /\ resp.kind = "update" /\ resp.status = 200
    /\ resp.body = [completed |-> "false"] /\ resp.mod = {"completed"}
    /\ tasks[resp.id].completed = FALSE

\* a body create must refuse: the title, trimmed, is empty or longer than 200
\* characters, or the description, trimmed, is longer than 1000
BadCreate(b) ==
    \/ ~Has(b, "title")
    \/ \A i \in 1..Len(b.title) : b.title[i] = SP
    \/ Len(Trim(b.title)) > MaxTitleLen
    \/ Has(b, "description") /\ Len(Trim(b.description)) > MaxDescLen

\* C14: a create whose title is empty, whitespace only or longer than 200
\* characters, or whose description is longer than 1000, is answered 400 and
\* stores nothing; any other create is answered 201 and stores exactly one
\* new task, not completed, with description "" when the body has none.
C14_CreateValidates ==
    [][\A r \in Slots :
          (reqs[r].kind = "create" /\ reqs[r].pc = "handler" /\ reqs'[r] = Idle) =>
              IF BadCreate(resp'.body)
              THEN resp'.status = 400 /\ tasks' = tasks
              ELSE /\ resp'.status = 201
                   /\ \A t \in DOMAIN tasks : t \in DOMAIN tasks' /\ tasks'[t] = tasks[t]
                   /\ Cardinality(DOMAIN tasks' \ DOMAIN tasks) = 1
                   /\ \A t \in DOMAIN tasks' \ DOMAIN tasks :
                         /\ tasks'[t].completed = FALSE
                         /\ ~Has(resp'.body, "description") => tasks'[t].description = <<>>]_vars

\* a create with a description of 1001 characters was refused and stored
\* nothing, after a create without description had stored a task
C14_Witness ==
    /\ resp.kind = "create" /\ resp.status = 400
    /\ Has(resp.body, "description") /\ Len(resp.body.description) > MaxDescLen
    /\ \E t \in DOMAIN tasks : tasks[t].description = <<>> /\ ~tasks[t].completed

-----------------------------------------------------------------------------
(* Create, then list, with other creates in flight *)

RoundTripBodies ==
    {[title |-> <<" ", "a", " ">>, description |-> <<" ", "d">>],
     [title |-> <<"b">>]}

NextRoundTrip ==
    \/ \E r \in Slots, k \in {"list", "create"}, h \in ListHeaders : Protect(r, k, h)
    \/ \E r \in Slots : List(r)
    \/ \E r \in Slots, b \in RoundTripBodies : Create(r, b)
    \/ Tick(1)

SpecRoundTrip == InitTasks /\ [][NextRoundTrip]_vars

\* the step is the list of slot r, by the identity whose create was answered
\* 201 by the step before
ListAfterCreate(r) ==
    /\ resp.kind = "create" /\ resp.status = 201
    /\ reqs[r].kind = "list" /\ reqs[r].pc = "handler" /\ reqs'[r] = Idle
    /\ reqs[r].user = resp.user

\* C16 as stated: the list that follows a successful create of the same
\* identity has the created task as its first element, with the title and
\* the description that were submitted.
C16_CreatedIsFirst ==
    [][\A r \in Slots :
          ListAfterCreate(r) =>
              /\ resp'.out # <<>>
              /\ resp'.out[1]._id = resp.id
              /\ resp'.out[1].title = resp.body.title
              /\ resp'.out[1].description =
                    IF Has(resp.body, "description") THEN resp.body.description ELSE <<>>]_vars

\* C16 amended: the list that follows a successful create of the same
\* identity carries the created task once, with the submitted title and
\* description trimmed, and no task created at an earlier time comes before it.
C16_CreatedIsListed ==
    [][\A r \in Slots :
          ListAfterCreate(r) =>
              \E i \in 1..Len(resp'.out) :
                  /\ resp'.out[i]._id = resp.id
                  /\ \A j \in 1..Len(resp'.out) : j # i => resp'.out[j]._id # resp.id
                  /\ resp'.out[i].title = Trim(resp.body.title)
                  /\ resp'.out[i].description =
                        IF Has(resp.body, "description") THEN Trim(resp.body.description)
                        ELSE <<>>
                  /\ \A j \in 1..(i - 1) :
                        resp'.out[j].createdAt >= resp'.out[i].createdAt]_vars

\* a list right after a create returned the new task ahead of an older one
C16_Witness ==
    /\ resp.kind = "list" /\ Len(resp.out) = 2
    /\ resp.out[1].createdAt > resp.out[2].createdAt
    /\ resp.out[1]._id = nextTaskId - 1

-----------------------------------------------------------------------------
(* Registrations with fields that fail validation *)

ShortSecret == <<"s", "e", "c">>

\* an address without a top-level domain, and one without "@"
NoTldMail == <<"a", "@", "x">>

NoAtMail == <<"a", "x", ".", "i", "o">>

ValidateBodies ==
    {[username |-> AnnName, email |-> AnnMail, password |-> Secret],
     [username |-> BobName, email |-> BobMail, password |-> Secret],
     [username |-> <<" ", " ", "a", " ", " ">>, email |-> AnnMail, password |-> Secret],
     [username |-> AnnName, email |-> NoTldMail, password |-> Secret],
     [username |-> AnnName, email |-> AnnMail, password |-> ShortSecret],
     [username |-> <<"a", "l">>, email |-> NoAtMail, password |-> ShortSecret],
     [username |-> BobName, email |-> NoAtMail, password |-> ShortSecret],
     EmptyBody}

NextValidate ==
    \/ \E r \in Slots, b \in ValidateBodies : RegisterStart(r, b)
    \/ \E r \in Slots : RegisterCheckUsername(r)
    \/ \E r \in Slots, s \in Salts : RegisterCreate(r, s)

SpecValidate == Init /\ [][NextValidate]_vars

\* the username of body b has fewer than 3 characters between its leading
\* and trailing spaces
BadUsername(b) == ~Has(b, "username") \/ Len(Trim(b.username)) < MinUsernameLen

BadEmail(b) == ~Has(b, "email") \/ ~IsEmail(b.email)

BadPassword(b) == ~Has(b, "password") \/ Len(b.password) < MinPasswordLen

\* C20: a register whose trimmed username is shorter than 3, whose email is
\* not an address or whose password is shorter than 6 is answered 400 with
\* the message of the first such field in the order username, email,
\* password; it stores no user and goes no further in the handler.
C20_RegisterValidates ==
    [][/\ (resp'.kind = "register"
              /\ (BadUsername(resp'.body) \/ BadEmail(resp'.body) \/ BadPassword(resp'.body)))
             => /\ resp'.status = 400
                /\ resp'.msg =
                      IF BadUsername(resp'.body)
                      THEN "Username must be at least 3 characters long"
                      ELSE IF BadEmail(resp'.body)
                      THEN "Please provide a valid email"
                      ELSE "Password must be at least 6 characters long"
                /\ users' = users
                /\ resp'.log = {"validate"}
       /\ \A r \in Slots :
             reqs'[r].kind = "register" =>
                 ~(BadUsername(reqs'[r].body) \/ BadEmail(reqs'[r].body)
                     \/ BadPassword(reqs'[r].body))]_vars

\* a register with a bad email and a short password got the email message
\* while a user is stored
C20_Witness ==
    /\ resp.kind = "register" /\ resp.status = 400
    /\ resp.msg = "Please provide a valid email"
    /\ ~BadUsername(resp.body) /\ BadPassword(resp.body)
    /\ DOMAIN users # {}

-----------------------------------------------------------------------------
(* Addresses that differ in letter case *)

AnnMailUpper == <<"A", "@", "X", ".", "i", "o">>

CaseRegisterBodies ==
    {[username |-> AnnName, email |-> AnnMail, password |-> Secret],
     [username |-> BobName, email |-> AnnMailUpper, password |-> Hunter]}

CaseLoginBodies ==
    {[email |-> AnnMail, password |-> Secret],
     [email |-> AnnMailUpper, password |-> Secret],
     [email |-> AnnMailUpper, password |-> Hunter],
     [email |-> BobMail, password |-> Secret]}

NextCase ==
    \/ \E r \in AuthSlots, b \in CaseRegisterBodies : RegisterStart(r, b)
    \/ \E r \in AuthSlots : RegisterCheckUsername(r)
    \/ \E r \in AuthSlots, s \in Salts : RegisterCreate(r, s)
    \/ \E r \in AuthSlots, b \in CaseLoginBodies : Login(r, b)
    \/ Tick(1)

SpecCase == Init /\ [][NextCase]_vars

\* the two addresses are the same up to the case of their letters
SameButCase(d, e) ==
    /\ Len(d) = Len(e)
    /\ \A i \in 1..Len(d) :
          \/ d[i] = e[i]
          \/ <<d[i], e[i]>> \in {<<"a", "A">>, <<"A", "a">>, <<"b", "B">>, <<"B", "b">>,
                                 <<"x", "X">>, <<"X", "x">>}

\* the stored users whose address is e up to case
SameCaseUsers(e) == {u \in DOMAIN users : SameButCase(users[u].email, e)}

\* the secret stored user u registered with
RegisteredSecret(u) ==
    (CHOOSE b \in CaseRegisterBodies : b.username = users[u].username).password

\* C21: once a user is stored, a register whose address is the user's up to
\* letter case is answered 400 'User already exists with this email' and goes
\* no further, and a login with such an address and the user's secret is
\* answered 200 as that user.
C21_CaseNormalized ==
    [][/\ \A r \in Slots :
             (reqs[r] = Idle /\ reqs'[r].kind = "register")
                 => SameCaseUsers(reqs'[r].sent.email) = {}
       /\ (resp'.kind = "register" /\ reqs' = reqs
              /\ RegisterErrors(resp'.sent) = <<>>
              /\ SameCaseUsers(resp'.sent.email) # {})
             => /\ resp'.status = 400
                /\ resp'.msg = "User already exists with this email"
                /\ users' = users
       /\ (resp'.kind = "login" /\ LoginErrors(resp'.body) = <<>>) =>
             \A u \in SameCaseUsers(resp'.body.email) :
                 resp'.body.password = RegisteredSecret(u)
                     => /\ resp'.status = 200
                        /\ resp'.out[1].user.id = u
                        /\ resp'.out[1].token.id = u]_vars

\* a login with the upper-case form of a stored address was answered 200
C21_Witness ==
    /\ resp.kind = "login" /\ resp.status = 200
    /\ resp.body.email = AnnMailUpper
    /\ users[resp.out[1].user.id].email = AnnMail


-----------------------------------------------------------------------------
(* Requests whose calls may throw, one at a time *)

NextFailure ==
    \/ \E r \in AuthSlots, b \in AuthRegisterBodies : RegisterStart(r, b)
    \/ \E r \in AuthSlots : RegisterCheckUsername(r)
    \/ \E r \in AuthSlots, s \in Salts : RegisterCreate(r, s)
    \/ \E r \in AuthSlots, b \in AuthLoginBodies : Login(r, b)
    \/ \E r \in AuthSlots, k \in TaskKinds, h \in TaskHeaders : Protect(r, k, h)
    \/ \E r \in AuthSlots : List(r)
    \/ \E r \in AuthSlots, b \in AuthCreateBodies : Create(r, b)
    \/ \E r \in AuthSlots, id \in TaskIds, b \in AuthUpdateBodies : UpdateLookup(r, id, b)
    \/ \E r \in AuthSlots : UpdateSave(r)
    \/ \E r \in AuthSlots, id \in TaskIds : DeleteLookup(r, id)
    \/ \E r \in AuthSlots : DeleteRemove(r)
    \/ \E r \in AuthSlots, k \in TaskKinds, h \in TaskHeaders : ProtectFindByIdThrows(r, k, h)
    \/ \E r \in AuthSlots, id \in TaskIds, b \in AuthUpdateBodies : TaskHandlerThrows(r, id, b)
    \/ \E r \in AuthSlots : TaskWriteThrows(r)
    \/ \E r \in AuthSlots, b \in AuthRegisterBodies : RegisterFindOneThrows(r, b)
    \/ \E r \in AuthSlots : RegisterThrows(r)
    \/ \E r \in AuthSlots, s \in Salts : RegisterSignThrows(r, s)
    \/ \E r \in AuthSlots, b \in AuthLoginBodies : LoginFindOneThrows(r, b)

SpecFailure == Init /\ [][NextFailure]_vars

\* C25: a request in which a database call throws is answered 500 with the
\* message of its route, also when the call is the User.findById of protect.
C25_FailureIs500 ==
    ("throws" \in resp.log /\ "jwt.sign" \notin resp.log) =>
        /\ resp.status = 500
        /\ resp.msg = ServerError(resp.kind)

\* C27: a register that is not answered 201 leaves the users collection as it
\* was, also when jwt.sign throws after User.create.
C27_FailedRegisterStoresNothing ==
    [][(resp'.kind = "register" /\ resp'.status # 201) => users' = users]_vars


-----------------------------------------------------------------------------
(* One browser session: every request is sent by the browser, through the
   request interceptor, and its response is handled before the next one *)

ClientRegisterBodies ==
    {[username |-> AnnName, email |-> AnnMail, password |-> Secret],
     [username |-> BobName, email |-> BobMail, password |-> Secret]}

ClientLoginBodies ==
    {[email |-> AnnMail, password |-> Secret],
     [email |-> AnnMail, password |-> Hunter]}

ClientCreateBodies == {[title |-> <<"a">>], [title |-> <<" ">>]}

ClientUpdateBodies == {[completed |-> "true"], [title |-> <<" ">>]}

\* the ids Dashboard passes to handleUpdateTask and handleDeleteTask: those of
\* the tasks it shows
LocalIds == {client.tasks[i]._id : i \in DOMAIN client.tasks}

NextClient ==
    \/ \E r \in AuthSlots, b \in ClientRegisterBodies : Settled /\ RegisterStart(r, b)
    \/ \E r \in AuthSlots : RegisterCheckUsername(r)
    \/ \E r \in AuthSlots, s \in Salts : RegisterCreate(r, s)
    \/ \E r \in AuthSlots, b \in ClientLoginBodies : Settled /\ Login(r, b)
    \/ \E r \in AuthSlots, k \in TaskKinds : Settled /\ Protect(r, k, RequestInterceptor)
    \/ \E r \in AuthSlots : List(r)
    \/ \E r \in AuthSlots, b \in ClientCreateBodies : Create(r, b)
    \/ \E r \in AuthSlots, id \in LocalIds, b \in ClientUpdateBodies : UpdateLookup(r, id, b)
    \/ \E r \in AuthSlots : UpdateSave(r)
    \/ \E r \in AuthSlots, id \in LocalIds : DeleteLookup(r, id)
    \/ \E r \in AuthSlots : DeleteRemove(r)
    \/ \E r \in AuthSlots, b \in ClientCreateBodies : TaskHandlerThrows(r, 0, b)
    \/ Receive
    \/ Settled /\ Reload
    \/ Settled /\ Logout
    \/ \E d \in {1, TokenTTL} : Settled /\ Tick(d)

SpecClient == Init /\ [][NextClient]_vars

\* C22: the step that handles a 401 leaves localStorage without token and
\* without user, and isAuthenticated() false; the token comes back only with
\* the handling of a login answered 200 or a register answered 201; and a
\* request sent while the token is absent carries no Authorization header.
C22_UnauthorizedClears ==
    [][/\ resp.status = 401 =>
             /\ client'.token = NoToken /\ client'.stored = EmptyBody
             /\ ~IsAuthenticated'
       /\ (client.token = NoToken /\ client'.token # NoToken) =>
             /\ resp.kind \in {"login", "register"}
             /\ resp.status \in {200, 201}
       /\ \A r \in Slots :
             (reqs[r] = Idle /\ reqs'[r] # Idle /\ client.token = NoToken) =>
                 reqs'[r].hdr = NoHeader
       /\ (resp'.status # 0 /\ client.token = NoToken) => resp'.hdr = NoHeader]_vars

\* after a 401 was handled, and before the page is loaded anew, a task
\* request was sent: it carried no header and was refused
C22_Witness ==
    /\ resp.kind \in TaskKinds /\ resp.status = 401
    /\ resp.msg = "Not authorized, no token" /\ resp.hdr = NoHeader
    /\ client.token = NoToken /\ client.user # EmptyBody

\* C29: 'token' and 'user' of localStorage are both present or both absent;
\* isAuthenticated() is true only if the user state and the token are both
\* present; ProtectedRoute renders its children when isAuthenticated() is
\* true and redirects to /login otherwise.
C29_SessionConsistent ==
    /\ (client.token # NoToken) <=> (client.stored # EmptyBody)
    /\ IsAuthenticated => (client.user # EmptyBody /\ client.token # NoToken)
    /\ IF IsAuthenticated THEN ProtectedRoute = "children"
       ELSE ProtectedRoute = "/login"

\* a 401 was handled in a session: the user state is still set, the token is
\* gone, and a protected route redirects
C29_Witness ==
    /\ Settled
    /\ client.user # EmptyBody /\ client.token = NoToken /\ client.stored = EmptyBody
    /\ ProtectedRoute = "/login"

\* the list of Dashboard is an answer GET /api/tasks can give to the user
C30State ==
    (Settled /\ client.fetched /\ client.user # EmptyBody) =>
        client.tasks \in SortByCreatedAtDesc(TaskFind(client.user.id))

====
